---- MODULE Spec2Model ----
(***************************************************************************)
(* Model of the Jupyter Docker runtime extension (src/src/extension.ts):   *)
(* the DockerManager (container lifecycle, remote execution protocol), the *)
(* DockerKernelProvider cell execution loop and the auto-start handler,    *)
(* running against an abstract Docker daemon.                              *)
(*                                                                         *)
(* Every await of a daemon call is one step of the calling task: the step  *)
(* holds the synchronous code that leads to the call, the daemon's answer  *)
(* (success, or a thrown error) and the synchronous code up to the next    *)
(* await.                                                                  *)
(***************************************************************************)
EXTENDS Naturals, Sequences, FiniteSets, TLC

\* ------------------------------------------------------------------ bounds

\* Number of cells in a batch handed to executeHandler.
NCells == 2
\* Number of top-level operations (batches, auto-starts, direct manager calls)
\* begun and of out-of-band daemon events in one behaviour.
MaxOps == 3
\* Most transport frames one exec response is split into.
MaxFrames == 2
\* Longest text drawn for a command's output when the parse alone is checked.
MaxText == 3
\* Number of operations begun in one behaviour when callers overlap.
MaxOverlapping == 3

\* ------------------------------------------------------- program constants

\* executeCode: output.slice(8), the Docker exec stream header length.
HeaderLen == 8

\* ------------------------------------------------------------------- state

VARIABLES
    cState,      \* daemon: canonical container "absent" | "stopped" | "running"
    idLive,      \* daemon: the container made by the last createContainer still exists
    image,       \* daemon: the workspace image exists
    helper,      \* container filesystem: /tmp/kernel_helper.py is present
    container,   \* DockerManager.container: "none" | "byName" | "byId"
    pc,          \* per task: the await it is suspended at ("idle": not running)
    op,          \* per task: the top-level operation it runs
    cell,        \* executeCell: the cell being executed (or the last one), its
                 \* outputs and its execution record (state, and how often start
                 \* and end were called on it)
    log,         \* executeHandler: how the batch's earlier cells ended, in order, whether
                 \* each entered ensureContainer and whether the container ran at its end
    ops,         \* top-level operations begun and out-of-band events so far
    ens,         \* history, per task: the ensureContainer call in progress
    ensHist,     \* history: the last completed ensureContainer calls in direct succession
    lastExec,    \* history: the last completed executeCode call
    sessionVars, \* history: names bound by ok executeCode calls in this container lifetime
    ret          \* history: the last completed isContainerRunning,
                 \* listAvailableKernels, serializeNotebook or deserializeNotebook
                 \* call: what it met and what it returned

daemon == <<cState, idLive, image, helper>>
ctl == <<pc, op, cell, log, ops>>
hist == <<ens, ensHist, lastExec, sessionVars, ret>>
vars == <<cState, idLive, image, helper, container,
          pc, op, cell, log, ops, ens, ensHist, lastExec, sessionVars, ret>>

Tasks == {"cmd", "batch", "auto"}

\* --------------------------------------------------------------- notebook

\* Cell sources the batch is drawn from; " " is a whitespace-only source.
Sources == {" ", "x = 5", "print(x)", "print(1)"}

\* String.prototype.trim on the sources above.
Trim(code) == IF code \in {"", " "} THEN "" ELSE code

TextItem(text) == [kind |-> "text", mime |-> "text/plain", data |-> <<text>>]
ErrorItem(message) == [kind |-> "error", mime |-> "application/vnd.code.notebook.error", data |-> message]

\* --------------------------------------------- remote execution protocol

\* Buffer.from(code).toString('base64') and the helper's base64.b64decode.
Base64Encode(code) == <<"b64", code>>
Base64Decode(token) == IF Len(token) = 2 /\ token[1] = "b64" THEN token[2] ELSE ""

\* The names the helper's module namespace binds for user code when the
\* interpreter process starts: none.
FreshGlobals == {}

\* exec(code, globals()) in the helper, for the sources above; a namespace is
\* the set of user names bound (x is only ever bound to 5).
PyExec(ns, code) ==
    CASE code = "x = 5"    -> [ns |-> ns \cup {"x"}, raised |-> FALSE, stdout |-> ""]
      [] code = "print(x)" -> IF "x" \in ns
                              THEN [ns |-> ns, raised |-> FALSE, stdout |-> "5\n"]
                              ELSE [ns |-> ns, raised |-> TRUE, stdout |-> ""]
      [] code = "print(1)" -> [ns |-> ns, raised |-> FALSE, stdout |-> "1\n"]
      [] OTHER             -> [ns |-> ns, raised |-> FALSE, stdout |-> ""]

\* execute_code(code) of the helper script: the result dictionary.
execute_code(ns, code) ==
    LET r == PyExec(ns, code)
    IN IF r.raised
       THEN [status |-> "error", output |-> "", error |-> <<"Traceback: NameError">>]
       ELSE [status |-> "ok", output |-> r.stdout, error |-> <<>>]

\* json.dumps(result) followed by print's line terminator, as characters.
JsonDumps(r) == <<"{", r.status, r.output>> \o r.error \o <<"}", "\n">>

\* One run of `python3 /tmp/kernel_helper.py <encoded>`: a new interpreter
\* process, whose module namespace starts fresh, prints one JSON line.
HelperProcess(argv) ==
    IF Len(argv) > 1
    THEN JsonDumps(execute_code(FreshGlobals, Base64Decode(argv[2])))
    ELSE JsonDumps([status |-> "error", output |-> "", error |-> <<"No code provided">>])

\* What the interpreter writes when the script file is missing.
NoSuchFile == <<"python3: can't open file '/tmp/kernel_helper.py'", "\n">>

\* The 8-byte frame header of the daemon's multiplexed exec stream, decoded
\* by chunk.toString('utf-8').
Header == [i \in 1..HeaderLen |-> "h"]

\* The raw stream for `text` delivered in n frames, each a header and a
\* chunk of the text (the chunks as even as the length allows).
RECURSIVE Mux(_, _)
Mux(text, n) ==
    IF n <= 1 \/ Len(text) <= 1
    THEN Header \o text
    ELSE LET k == (Len(text) + n - 1) \div n
         IN Header \o SubSeq(text, 1, k) \o Mux(SubSeq(text, k + 1, Len(text)), n - 1)

\* A reader that takes the header off every frame of the stream.
SliceEveryHeader(s) == SelectSeq(s, LAMBDA c : c # "h")

\* String.prototype.slice(8).
Slice8(s) == SubSeq(s, HeaderLen + 1, Len(s))

\* The object JSON.parse gives for "{}": no property.
EmptyObject == [k \in {} |-> ""]

\* JSON.parse on a text: the value, or a throw. A text is a sequence of
\* characters and string values; "\n" between values is white space, which
\* JSON allows anywhere, and "h" (header bytes) and "x" (a bare word) belong to
\* no JSON text. The values between the braces are those of the properties
\* status, output and error in this order, as json.dumps writes them.
JsonParse(s) ==
    LET t == SelectSeq(s, LAMBDA c : c # "\n")
    IN IF /\ Len(t) >= 2
          /\ t[1] = "{"
          /\ t[Len(t)] = "}"
          /\ \A i \in 2..(Len(t) - 1) : t[i] \notin {"h", "x", "{", "}"}
       THEN [threw |-> FALSE,
             value |-> CASE Len(t) = 2 -> EmptyObject
                         [] Len(t) = 3 -> [status |-> t[2]]
                         [] OTHER      -> [status |-> t[2], output |-> t[3],
                                           error |-> SubSeq(t, 4, Len(t) - 1)]]
       ELSE [threw |-> TRUE, value |-> EmptyObject]

\* executeCode after execInContainer resolved with `output`.
ParseResult(output) ==
    LET p == JsonParse(Slice8(output))
    IN IF p.threw
       THEN [status |-> "error", output |-> "",
             error |-> <<"Failed to parse execution result: ">> \o output]
       ELSE p.value

\* ------------------------------------------------------------------- Init

NewCell(src, outs) ==
    [src |-> src, outputs |-> outs, state |-> "idle", invoked |-> {}, failedIn |-> "none",
     starts |-> 0, ends |-> 0]

NoCell == NewCell(" ", <<>>)

\* The outputs a cell may hold from an earlier run when it is executed.
PriorOutputs == {<<>>, <<TextItem("1\n")>>}

\* A freshly constructed manager (no cached handle) facing any daemon state an
\* earlier session may have left.
Init ==
    /\ cState \in {"absent", "stopped", "running"}
    /\ idLive = FALSE
    /\ image \in (IF cState = "absent" THEN BOOLEAN ELSE {TRUE})
    /\ helper \in (IF cState = "absent" THEN {FALSE} ELSE BOOLEAN)
    /\ container = "none"
    /\ pc = [t \in Tasks |-> "idle"]
    /\ op = [t \in Tasks |-> "none"]
    /\ cell = NoCell
    /\ log = <<>>
    /\ ops = 0
    /\ ens = [t \in Tasks |-> <<>>]
    /\ ensHist = <<>>
    /\ lastExec = <<>>
    /\ sessionVars = {}
    /\ ret = <<>>

\* ------------------------------------------------------------ control flow

\* No task is inside an operation: callers run their operations one at a time.
Quiescent == \A t \in Tasks : pc[t] = "idle"

\* The cell a batch is running, with manager method m recorded as entered
\* (history kept in the cell's record).
Entered(t, m) ==
    IF op[t] = "batch" /\ m # "none"
    THEN [cell EXCEPT !.invoked = @ \cup {m}]
    ELSE cell

\* The task goes on to the await p, having entered method m ("none": none).
Goto(t, p, m) ==
    /\ pc' = [pc EXCEPT ![t] = p]
    /\ cell' = Entered(t, m)
    /\ UNCHANGED <<op, log, ops>>

\* The task's top-level operation returns, or throws to the host.
Finish(t) ==
    /\ pc' = [pc EXCEPT ![t] = "idle"]
    /\ op' = [op EXCEPT ![t] = "none"]
    /\ UNCHANGED <<cell, log, ops>>

\* executeHandler's loop after executeCell returned, the cell having ended
\* Succeeded (ok) or Failed: the next cell, or return after the last one.
NextCellAborting(t, ok) ==
    /\ pc' = [pc EXCEPT ![t] = IF ok /\ Len(log) + 1 < NCells THEN "cell_start" ELSE "idle"]
    /\ op' = [op EXCEPT ![t] = IF ok /\ Len(log) + 1 < NCells THEN "batch" ELSE "none"]

NextCell(t, ok) ==
    /\ pc' = [pc EXCEPT ![t] = IF Len(log) + 1 < NCells THEN "cell_start" ELSE "idle"]
    /\ op' = [op EXCEPT ![t] = IF Len(log) + 1 < NCells THEN "batch" ELSE "none"]

\* An executeCell that calls execution.end once more on its way out.
CellEndTwice(t, c, outs, ok, why) ==
    /\ cell' = [c EXCEPT !.outputs = outs,
                         !.state = IF ok THEN "succeeded" ELSE "failed",
                         !.failedIn = why,
                         !.ends = @ + 2]
    /\ log' = Append(log, [state |-> IF ok THEN "succeeded" ELSE "failed", failedIn |-> why,
                            guarded |-> "ensure" \in c.invoked, up |-> cState = "running"])
    /\ NextCell(t, ok)
    /\ UNCHANGED ops

\* executeCell reaches execution.end(ok) with the cell's outputs being `outs`.
CellEnd(t, c, outs, ok, why) ==
    /\ cell' = [c EXCEPT !.outputs = outs,
                         !.state = IF ok THEN "succeeded" ELSE "failed",
                         !.failedIn = why,
                         !.ends = @ + 1]
    /\ log' = Append(log, [state |-> IF ok THEN "succeeded" ELSE "failed", failedIn |-> why,
                            guarded |-> "ensure" \in c.invoked, up |-> cState = "running"])
    /\ NextCell(t, ok)
    /\ UNCHANGED ops

\* An exception leaves a manager method: executeCell's catch appends one
\* error item to the cell and ends it; ensureContainerRunning's catch shows
\* the error; a command lets it reach the host.
Throw(t, err, why, m) ==
    IF op[t] = "batch"
    THEN CellEnd(t, Entered(t, m), Append(cell.outputs, ErrorItem(err)), FALSE, why)
    ELSE Finish(t)

\* ensureContainer returns: its callers go on to setupKernel.
EnsReturn(t, m) ==
    IF op[t] = "ensure" THEN Finish(t) ELSE Goto(t, "sk_pip", m)

\* ------------------------------------------------------- history variables

NewEns ==
    [entryC |-> cState, entryImg |-> image, entryHandle |-> container,
     calls |-> <<>>, faults |-> {}, disturbed |-> FALSE]

\* The call record of t's ensureContainer with one more daemon call; `fault`:
\* the daemon failed the call for a reason of its own.
EnsCall(t, call, fault) ==
    LET cur == IF ens[t] = <<>> THEN NewEns ELSE ens[t][1]
    IN [cur EXCEPT !.calls = Append(@, call),
                   !.faults = IF fault THEN @ \cup {call} ELSE @]

\* The completed call the one in progress directly succeeds, if any.
Prev == IF ensHist = <<>> THEN <<>> ELSE <<ensHist[Len(ensHist)]>>

EnsStep(t, rec) ==
    /\ ens' = [ens EXCEPT ![t] = <<rec>>]
    /\ ensHist' = Prev

EnsDone(t, rec, out, afterC, afterHandle, afterLive) ==
    /\ ens' = [ens EXCEPT ![t] = <<>>]
    /\ ensHist' = Append(Prev,
                     [entryC |-> rec.entryC, entryImg |-> rec.entryImg,
                      entryHandle |-> rec.entryHandle, calls |-> rec.calls,
                      faults |-> rec.faults, disturbed |-> rec.disturbed,
                      out |-> out, afterC |-> afterC,
                      afterHandle |-> afterHandle, afterLive |-> afterLive])

\* A step outside ensureContainer: later ensureContainer calls are no longer
\* in direct succession to the earlier ones.
NotEns ==
    /\ ensHist' = <<>>
    /\ UNCHANGED ens

\* ------------------------------------------------------------ the daemon

\* The cached handle names a container the daemon holds: a handle from
\* getContainer(name) is resolved by name at each call, one returned by
\* createContainer names the container that call made.
Resolves ==
    CASE container = "byName" -> cState # "absent"
      [] container = "byId"   -> idLive
      [] OTHER                -> FALSE

\* ------------------------------------------------ DockerManager.ensureContainer

\* info.State.Running of the inspect answer.
InfoRunningNever(fault) == FALSE

InfoRunning(fault) == ~fault /\ cState = "running"

\* The catch around inspect and start: whatever was thrown (no such
\* container, a daemon error, a failed start), go on to buildImage.
CatchRethrows(t, rec, m) ==
    /\ EnsDone(t, rec, "threw", cState, container', idLive)
    /\ Throw(t, <<"Error: no such container">>, "ensure", m)

CatchExisting(t, rec, m) ==
    /\ EnsStep(t, rec)
    /\ Goto(t, "img_inspect", m)

\* getContainer(name) and inspect(): running returns; stopped goes on to
\* start; a throw is caught.
EnsInspect(t) ==
    /\ pc[t] = "ens_inspect"
    /\ container' = "byName"
    /\ lastExec' = <<>>
    /\ ret' = <<>>
    /\ UNCHANGED <<daemon, sessionVars>>
    /\ \E fault \in BOOLEAN :
         LET rec == EnsCall(t, "inspect", fault)
         IN IF InfoRunning(fault)
            THEN EnsDone(t, rec, "returned", cState, "byName", idLive) /\ EnsReturn(t, "ensure")
            ELSE IF ~fault /\ cState = "stopped"
                 THEN EnsStep(t, rec) /\ Goto(t, "ens_start", "ensure")
                 ELSE CatchExisting(t, rec, "ensure")

\* this.container.start() on the stopped container: on success return; a
\* throw is caught by the same catch and leads to buildImage.
EnsStart(t) ==
    /\ pc[t] = "ens_start"
    /\ UNCHANGED <<idLive, image, helper, container>>
    /\ lastExec' = <<>>
    /\ ret' = <<>>
    /\ \E fault \in BOOLEAN :
         LET rec == EnsCall(t, "start", fault)
         IN IF ~fault /\ Resolves /\ cState = "stopped"
            THEN /\ cState' = "running"
                 /\ sessionVars' = {}
                 /\ EnsDone(t, rec, "returned", "running", container, idLive)
                 /\ EnsReturn(t, "none")
            ELSE /\ UNCHANGED <<cState, sessionVars>>
                 /\ CatchExisting(t, rec, "none")

\* buildImage: when the configured Dockerfile is missing the default one is
\* written (the disk may refuse: "fsThrow" leaves buildImage); then
\* getImage(name).inspect(): an existing image returns, a throw
\* ("inspectThrow", or no such image) leads to the build.
BuildImageInspect(t) ==
    /\ pc[t] = "img_inspect"
    /\ UNCHANGED <<cState, idLive, image, helper, container, sessionVars>>
    /\ lastExec' = <<>>
    /\ ret' = <<>>
    /\ \E outcome \in {"ok", "inspectThrow", "fsThrow"} :
         IF outcome = "fsThrow"
         THEN /\ EnsDone(t, EnsCall(t, "writeDockerfile", TRUE), "threw", cState, container, idLive)
              /\ Throw(t, <<"Error: write failed">>, "ensure", "none")
         ELSE /\ EnsStep(t, EnsCall(t, "imageInspect", outcome # "ok"))
              /\ Goto(t, IF outcome = "ok" /\ image THEN "create" ELSE "build", "none")

\* buildImage: docker.buildImage and its stream. "ok": the image is built;
\* "throw": the call or the stream raises, which buildImage rethrows;
\* "silent": the build fails with an error chunk in the stream, which is only
\* logged, and the stream ends.
BuildImage(t) ==
    /\ pc[t] = "build"
    /\ UNCHANGED <<cState, idLive, helper, container, sessionVars>>
    /\ lastExec' = <<>>
    /\ ret' = <<>>
    /\ \E outcome \in {"ok", "throw", "silent"} :
         LET rec == EnsCall(t, "build", outcome # "ok")
         IN /\ image' = (image \/ outcome = "ok")
            /\ IF outcome = "throw"
               THEN /\ EnsDone(t, rec, "threw", cState, container, idLive)
                    /\ Throw(t, <<"Error: build failed">>, "ensure", "none")
               ELSE /\ EnsStep(t, rec)
                    /\ Goto(t, "create", "none")

\* createContainer: docker.createContainer under the canonical name. The
\* daemon refuses a name in use and an image it does not hold.
CreateContainer(t) ==
    /\ pc[t] = "create"
    /\ UNCHANGED <<image>>
    /\ lastExec' = <<>>
    /\ ret' = <<>>
    /\ \E fault \in BOOLEAN :
         LET rec == EnsCall(t, "create", fault)
         IN IF ~fault /\ cState = "absent" /\ image
            THEN /\ cState' = "stopped"
                 /\ idLive' = TRUE
                 /\ helper' = FALSE
                 /\ container' = "byId"
                 /\ sessionVars' = {}
                 /\ EnsStep(t, rec)
                 /\ Goto(t, "cr_start", "none")
            ELSE /\ UNCHANGED <<cState, idLive, helper, container, sessionVars>>
                 /\ EnsDone(t, rec, "threw", cState, container, idLive)
                 /\ Throw(t, <<"Error: create failed">>, "ensure", "none")

\* createContainer: a throw of this.container.start() leaves createContainer
\* and ensureContainer.
StartThrowSwallowed(t, rec) ==
    /\ EnsDone(t, rec, "returned", cState, container, idLive)
    /\ EnsReturn(t, "none")

StartThrew(t, rec) ==
    /\ EnsDone(t, rec, "threw", cState, container, idLive)
    /\ Throw(t, <<"Error: start failed">>, "ensure", "none")

\* createContainer: this.container.start() on the new container.
CreateStart(t) ==
    /\ pc[t] = "cr_start"
    /\ UNCHANGED <<idLive, image, helper, container>>
    /\ lastExec' = <<>>
    /\ ret' = <<>>
    /\ \E fault \in BOOLEAN :
         LET rec == EnsCall(t, "start", fault)
         IN IF ~fault /\ Resolves /\ cState = "stopped"
            THEN /\ cState' = "running"
                 /\ sessionVars' = {}
                 /\ EnsDone(t, rec, "returned", "running", container, idLive)
                 /\ EnsReturn(t, "none")
            ELSE /\ UNCHANGED <<cState, sessionVars>>
                 /\ StartThrew(t, rec)

ensureContainer(t) ==
    \/ EnsInspect(t)
    \/ EnsStart(t)
    \/ BuildImageInspect(t)
    \/ BuildImage(t)
    \/ CreateContainer(t)
    \/ CreateStart(t)

\* --------------------------------------------------- DockerManager.setupKernel

\* A daemon that runs commands in any container the handle names.
ExecOkAnyState == Resolves

\* container.exec / exec.start succeed only on a running container.
ExecOk == Resolves /\ cState = "running"

\* setupKernel returns: executeCell goes on to executeCode.
SetupReturn(t, m) ==
    IF op[t] = "batch" THEN Goto(t, "xc_exec", m) ELSE Finish(t)

\* The handle check, then execInContainer(pip install ...). The command's
\* exit status is not looked at; only a failing exec call throws.
SetupPip(t) ==
    /\ pc[t] = "sk_pip"
    /\ lastExec' = <<>>
    /\ ret' = <<>>
    /\ NotEns
    /\ UNCHANGED <<daemon, container, sessionVars>>
    /\ \E fault \in BOOLEAN :
         IF container = "none"
         THEN Throw(t, <<"Error: Container not initialized">>, "setup", "setup")
         ELSE IF ~fault /\ ExecOk
              THEN Goto(t, "sk_install", "setup")
              ELSE Throw(t, <<"Error: exec failed">>, "setup", "setup")

\* execInContainer(python3 -m ipykernel install ...).
SetupInstall(t) ==
    /\ pc[t] = "sk_install"
    /\ lastExec' = <<>>
    /\ ret' = <<>>
    /\ NotEns
    /\ UNCHANGED <<daemon, container, sessionVars>>
    /\ \E fault \in BOOLEAN :
         IF container # "none" /\ ~fault /\ ExecOk
         THEN Goto(t, "sk_copy", "none")
         ELSE Throw(t, <<"Error: exec failed">>, "setup", "none")

\* copyKernelHelper: putArchive of kernel_helper.py into /tmp.
CopyKernelHelper(t) ==
    /\ pc[t] = "sk_copy"
    /\ lastExec' = <<>>
    /\ ret' = <<>>
    /\ NotEns
    /\ UNCHANGED <<cState, idLive, image, container, sessionVars>>
    /\ \E fault \in BOOLEAN :
         IF container # "none" /\ ~fault /\ Resolves
         THEN /\ helper' = TRUE
              /\ SetupReturn(t, "none")
         ELSE /\ UNCHANGED helper
              /\ Throw(t, <<"Error: upload failed">>, "setup", "none")

setupKernel(t) ==
    \/ SetupPip(t)
    \/ SetupInstall(t)
    \/ CopyKernelHelper(t)

\* ------------------------------------------------- DockerManager.executeCode

\* The names a source binds at top level when it runs without raising.
Binds(code) == IF code = "x = 5" THEN {"x"} ELSE {}

\* execInContainer([pythonPath, '/tmp/kernel_helper.py', encodedCode]): what
\* the command writes.
ExecHelper(code) ==
    IF helper
    THEN HelperProcess(<<"/tmp/kernel_helper.py", Base64Encode(code)>>)
    ELSE NoSuchFile

\* executeCell after executeCode resolved: clearOutput, then the text output
\* and end(true), or the error output and end(false).
CellResult(t, result, m) ==
    IF result.status = "ok"
    THEN CellEnd(t, Entered(t, m),
                 IF result.output # "" THEN <<TextItem(result.output)>> ELSE <<>>,
                 TRUE, "none")
    ELSE CellEnd(t, Entered(t, m), <<ErrorItem(result.error)>>, FALSE, "result")

ExecuteCode(t) ==
    /\ pc[t] = "xc_exec"
    /\ NotEns
    /\ UNCHANGED <<daemon, container>>
    /\ \E code \in (IF op[t] = "batch" THEN {cell.src} ELSE Sources), fault \in BOOLEAN :
         IF container = "none" \/ fault \/ ~ExecOk
         THEN /\ lastExec' = <<>>
              /\ ret' = <<>>
              /\ UNCHANGED sessionVars
              /\ Throw(t, IF container = "none"
                          THEN <<"Error: Container not initialized">>
                          ELSE <<"Error: exec failed">>,
                       "exec", "exec")
         ELSE \E n \in 1..MaxFrames :
                LET result == ParseResult(Mux(ExecHelper(code), n))
                IN /\ lastExec' = <<[code |-> code, result |-> result, frames |-> n,
                                     raw |-> Mux(ExecHelper(code), n),
                                     earlier |-> sessionVars]>>
                   /\ ret' = <<>>
                   /\ sessionVars' = IF result.status = "ok"
                                     THEN sessionVars \cup Binds(code)
                                     ELSE sessionVars
                   /\ IF op[t] = "batch"
                      THEN CellResult(t, result, "exec")
                      ELSE Finish(t)

\* The texts the configured interpreter command (pythonPath, line 376) may
\* write: every text of at most MaxText characters over braces, line ends and
\* a bare word, the helper's line for each source, and the interpreter's
\* complaint about a missing script.
ParseAlphabet == {"{", "}", "\n", "x"}

Responses ==
    UNION {[1..k -> ParseAlphabet] : k \in 0..MaxText}
      \cup {HelperProcess(<<"/tmp/kernel_helper.py", Base64Encode(code)>>) : code \in Sources}
      \cup {NoSuchFile}

\* A manager whose container runs, with nothing executed yet.
InitParse ==
    /\ cState = "running"
    /\ idLive = FALSE
    /\ image = TRUE
    /\ helper = TRUE
    /\ container = "byName"
    /\ pc = [t \in Tasks |-> "idle"]
    /\ op = [t \in Tasks |-> "none"]
    /\ cell = NoCell
    /\ log = <<>>
    /\ ops = 0
    /\ ens = [t \in Tasks |-> <<>>]
    /\ ensHist = <<>>
    /\ lastExec = <<>>
    /\ sessionVars = {}
    /\ ret = <<>>

\* executeCode, the command having written `text`, delivered in n frames.
ExecuteCodeOn ==
    \E text \in Responses, n \in 1..MaxFrames :
      /\ lastExec' = <<[code |-> "", result |-> ParseResult(Mux(text, n)), frames |-> n,
                        raw |-> Mux(text, n), earlier |-> {}]>>
      /\ UNCHANGED <<daemon, container, ctl, ens, ensHist, sessionVars, ret>>

SpecParse == InitParse /\ [][ExecuteCodeOn]_vars

\* ------------------------------------------ DockerManager.listAvailableKernels

\* What `jupyter kernelspec list --json` may write: the kernelspecs object
\* with its kernel names, one with no kernel, and a text that is no JSON
\* (the command is missing or fails).
KernelTexts ==
    {<<"{", "kernelspecs", "python3", "docker-python", "}", "\n">>,
     <<"{", "kernelspecs", "}", "\n">>,
     <<"x", "\n">>}

\* JSON.parse on such a text, and Object.keys(data.kernelspecs || {}).
KernelKeys(s) ==
    LET t == SelectSeq(s, LAMBDA c : c # "\n")
    IN IF /\ Len(t) >= 2
          /\ t[1] = "{"
          /\ t[Len(t)] = "}"
          /\ \A i \in 2..(Len(t) - 1) : t[i] \notin {"h", "x", "{", "}"}
          /\ Len(t) > 2 => t[2] = "kernelspecs"
       THEN [threw |-> FALSE, keys |-> SubSeq(t, 3, Len(t) - 1)]
       ELSE [threw |-> TRUE, keys |-> <<>>]

\* listAvailableKernels: without a handle the empty list; else the command
\* is run and its output parsed, and any throw (of the exec, of JSON.parse)
\* gives the list holding the default kernel.
ListKernels(t) ==
    /\ pc[t] = "lk_exec"
    /\ lastExec' = <<>>
    /\ NotEns
    /\ UNCHANGED <<daemon, container, sessionVars>>
    /\ Finish(t)
    /\ IF container = "none"
       THEN ret' = <<[method |-> "listAvailableKernels", failure |-> "noHandle",
                      value |-> <<>>]>>
       ELSE \E fault \in BOOLEAN, text \in KernelTexts, n \in 1..MaxFrames :
              LET p == KernelKeys(Slice8(Mux(text, n)))
                  failure == IF fault \/ ~ExecOk THEN "exec"
                             ELSE IF p.threw THEN "parse" ELSE "none"
              IN ret' = <<[method |-> "listAvailableKernels", failure |-> failure,
                           value |-> IF failure = "none" THEN p.keys
                                     ELSE <<"docker-python">>]>>

\* ------------------------------------------------ DockerManager.stopContainer

\* stopContainer returns: rebuildContainer goes on to remove the image.
StopReturn(t, m) ==
    IF op[t] = "rebuild" THEN Goto(t, "rb_rmimage", m) ELSE Finish(t)

\* Without a handle nothing is done; else this.container.stop(), whose throw
\* (daemon error, container gone or not running) is caught and logged.
StopStop(t) ==
    /\ pc[t] = "st_stop"
    /\ lastExec' = <<>>
    /\ ret' = <<>>
    /\ NotEns
    /\ UNCHANGED <<idLive, image, helper, container>>
    /\ \E fault \in BOOLEAN :
         IF container # "none" /\ ~fault /\ Resolves /\ cState = "running"
         THEN /\ cState' = "stopped"
              /\ sessionVars' = {}
              /\ Goto(t, "st_remove", "none")
         ELSE /\ UNCHANGED <<cState, sessionVars>>
              /\ StopReturn(t, "none")

\* this.container.remove(), then the handle is cleared; a throw is caught and
\* logged, and the handle stays.
StopRemove(t) ==
    /\ pc[t] = "st_remove"
    /\ lastExec' = <<>>
    /\ ret' = <<>>
    /\ NotEns
    /\ UNCHANGED <<image, sessionVars>>
    /\ \E fault \in BOOLEAN :
         IF container # "none" /\ ~fault /\ Resolves /\ cState = "stopped"
         THEN /\ cState' = "absent"
              /\ idLive' = FALSE
              /\ helper' = FALSE
              /\ container' = "none"
              /\ StopReturn(t, "none")
         ELSE /\ UNCHANGED <<cState, idLive, helper, container>>
              /\ StopReturn(t, "none")

stopContainer(t) ==
    \/ StopStop(t)
    \/ StopRemove(t)

\* --------------------------------------------- DockerManager.rebuildContainer

\* getImage(name).remove(): the daemon refuses while a container uses the
\* image; any throw is caught. ensureContainer follows.
RebuildRemoveImage(t) ==
    /\ pc[t] = "rb_rmimage"
    /\ lastExec' = <<>>
    /\ ret' = <<>>
    /\ NotEns
    /\ UNCHANGED <<cState, idLive, helper, container, sessionVars>>
    /\ \E fault \in BOOLEAN :
         image' = (image /\ (fault \/ cState # "absent"))
    /\ Goto(t, "ens_inspect", "none")

\* ------------------------------------------- DockerManager.isContainerRunning

\* A query that lists the containers of every state.
isContainerRunningAnyState(fault) == ~fault /\ cState # "absent"

\* listContainers() lists the running containers; a throw gives false.
isContainerRunning(fault) == ~fault /\ cState = "running"

\* The record of an isContainerRunning call: the daemon state and the handle
\* it met, whether the query failed, and the value returned.
Probed(fault) ==
    <<[method |-> "isContainerRunning", met |-> <<cState, idLive, image, helper, container>>,
       failed |-> fault, value |-> isContainerRunning(fault)]>>

\* ------------------------------------------------- DockerKernelProvider

\* executeHandler is called with a batch of NCells cells.
BeginBatch ==
    /\ Quiescent
    /\ ops < MaxOps
    /\ ops' = ops + 1
    /\ cell' = NoCell
    /\ log' = <<>>
    /\ pc' = [pc EXCEPT !["batch"] = "cell_start"]
    /\ op' = [op EXCEPT !["batch"] = "batch"]
    /\ lastExec' = <<>>
    /\ ret' = <<>>
    /\ UNCHANGED <<daemon, container, ens, ensHist, sessionVars>>

\* executeCell up to its first await, for the batch's next cell (its source
\* and the outputs it holds are the host's): createNotebookCellExecution,
\* start, and for an empty or whitespace-only source end(true) and return.
CellStart(t) ==
    /\ pc[t] = "cell_start"
    /\ lastExec' = <<>>
    /\ ret' = <<>>
    /\ UNCHANGED <<daemon, container, ens, ensHist, sessionVars>>
    /\ \E src \in Sources, outs \in PriorOutputs :
         LET c == [NewCell(src, outs) EXCEPT !.state = "running", !.starts = 1]
         IN IF Trim(src) = ""
            THEN CellEnd(t, c, c.outputs, TRUE, "none")
            ELSE /\ cell' = c
                 /\ pc' = [pc EXCEPT ![t] = "cell_probe"]
                 /\ UNCHANGED <<op, log, ops>>

\* executeHandler going on to the next cell at executeCell's first await,
\* the cell's execution still running.
CellProbeNotAwaited(t) ==
    /\ pc[t] = "cell_probe"
    /\ pc' = [pc EXCEPT ![t] = "cell_start"]
    /\ UNCHANGED <<daemon, container, op, cell, log, ops, hist>>

\* executeCell: isContainerRunning(); when false, ensureContainer and
\* setupKernel run before executeCode.
CellProbe(t) ==
    /\ pc[t] = "cell_probe"
    /\ lastExec' = <<>>
    /\ NotEns
    /\ UNCHANGED <<daemon, container, sessionVars>>
    /\ \E fault \in BOOLEAN :
         /\ ret' = Probed(fault)
         /\ Goto(t, IF isContainerRunning(fault) THEN "xc_exec" ELSE "ens_inspect", "probe")

executeCell(t) ==
    \/ CellStart(t)
    \/ CellProbe(t)

\* ------------------------------------------------ ensureContainerRunning

\* A notebook is opened with autoStart set, or the extension activates with
\* notebooks open.
BeginAuto ==
    /\ Quiescent
    /\ ops < MaxOps
    /\ ops' = ops + 1
    /\ pc' = [pc EXCEPT !["auto"] = "auto_probe"]
    /\ op' = [op EXCEPT !["auto"] = "auto"]
    /\ cell' = NoCell
    /\ log' = <<>>
    /\ lastExec' = <<>>
    /\ ret' = <<>>
    /\ UNCHANGED <<daemon, container, ens, ensHist, sessionVars>>

\* isContainerRunning(); when false, ensureContainer and setupKernel.
AutoProbe(t) ==
    /\ pc[t] = "auto_probe"
    /\ lastExec' = <<>>
    /\ NotEns
    /\ UNCHANGED <<daemon, container, sessionVars>>
    /\ \E fault \in BOOLEAN :
         /\ ret' = Probed(fault)
         /\ IF isContainerRunning(fault) THEN Finish(t) ELSE Goto(t, "ens_inspect", "none")

\* ----------------------------------------------------- manager operations

\* The public methods of DockerManager a caller (a command of the extension,
\* a test) invokes directly, and the await each starts at.
Entry(o) ==
    CASE o = "ensure"  -> "ens_inspect"
      [] o = "setup"   -> "sk_pip"
      [] o = "exec"    -> "xc_exec"
      [] o = "stop"    -> "st_stop"
      [] o = "rebuild" -> "st_stop"
      [] o = "probe"   -> "cmd_probe"
      [] o = "kernels" -> "lk_exec"

Methods == {"ensure", "setup", "exec", "stop", "rebuild", "probe", "kernels"}

BeginCmd ==
    /\ Quiescent
    /\ ops < MaxOps
    /\ ops' = ops + 1
    /\ \E o \in Methods :
         /\ pc' = [pc EXCEPT !["cmd"] = Entry(o)]
         /\ op' = [op EXCEPT !["cmd"] = o]
    /\ cell' = NoCell
    /\ log' = <<>>
    /\ lastExec' = <<>>
    /\ ret' = <<>>
    /\ UNCHANGED <<daemon, container, ens, ensHist, sessionVars>>

CmdProbe(t) ==
    /\ pc[t] = "cmd_probe"
    /\ lastExec' = <<>>
    /\ NotEns
    /\ UNCHANGED <<daemon, container, sessionVars>>
    /\ \E fault \in BOOLEAN : ret' = Probed(fault)
    /\ Finish(t)

\* ------------------------------------------------- NotebookSerializer

\* Texts here are sequences of characters. The characters cell sources and
\* output texts are made of.
Chars == {"a", "\n"}

Texts == UNION {[1..k -> Chars] : k \in 0..MaxText}

\* String.prototype.split('\n'): the pieces between the line ends.
RECURSIVE Split(_)
Split(s) ==
    IF \A i \in 1..Len(s) : s[i] # "\n"
    THEN <<s>>
    ELSE LET k == CHOOSE i \in 1..Len(s) : s[i] = "\n" /\ \A j \in 1..(i - 1) : s[j] # "\n"
         IN <<SubSeq(s, 1, k - 1)>> \o Split(SubSeq(s, k + 1, Len(s)))

\* Array.prototype.join('').
RECURSIVE Join(_)
Join(parts) == IF parts = <<>> THEN <<>> ELSE Head(parts) \o Join(Tail(parts))

\* A string as JSON.stringify writes it between its quotes, and as JSON.parse
\* reads it back: a line end is written as a backslash and an n.
RECURSIVE JsonEscape(_)
JsonEscape(s) ==
    IF s = <<>> THEN <<>>
    ELSE (IF Head(s) = "\n" THEN <<"\\", "n">> ELSE <<Head(s)>>) \o JsonEscape(Tail(s))

RECURSIVE JsonUnescape(_)
JsonUnescape(s) ==
    IF s = <<>> THEN <<>>
    ELSE IF Head(s) = "\\" /\ Len(s) >= 2 /\ s[2] = "n"
         THEN <<"\n">> \o JsonUnescape(SubSeq(s, 3, Len(s)))
         ELSE <<Head(s)>> \o JsonUnescape(Tail(s))

\* A NotebookCellOutput holding one text/plain item, and the cells of a
\* NotebookData.
StreamOutput(text) == [items |-> <<[mime |-> "text/plain", data |-> text]>>]

CodeCell(source, outputs) == [kind |-> "Code", value |-> source, outputs |-> outputs]

MarkupCell(source) == [kind |-> "Markup", value |-> source, outputs |-> <<>>]

\* The documents the serializer is given: a code cell with one stream output
\* and a markdown cell.
Documents ==
    {[cells |-> <<CodeCell(src, <<StreamOutput(text)>>), MarkupCell(<<"a">>)>>] :
        src \in {<<>>, <<"a">>, <<"a", "\n">>, <<"a", "\n", "a">>}, text \in Texts}

\* serializeOutput: the notebook-format output for a cell output, by its
\* first item; an error item's data is its name, message and stack.
serializeOutput(output) ==
    IF output.items = <<>>
    THEN [output_type |-> "stream", name |-> "stdout", text |-> <<>>]
    ELSE LET firstItem == output.items[1]
         IN CASE firstItem.mime = "application/vnd.code.notebook.error" ->
                   [output_type |-> "error", ename |-> firstItem.data.name,
                    evalue |-> firstItem.data.message,
                    traceback |-> IF firstItem.data.stack # <<>>
                                  THEN Split(firstItem.data.stack) ELSE <<>>]
              [] firstItem.mime = "text/plain" ->
                   [output_type |-> "stream", name |-> "stdout",
                    text |-> Split(firstItem.data)]
              [] OTHER ->
                   [output_type |-> "display_data", data |-> output.items]

\* The object serializeNotebook builds (its constant metadata left out).
NotebookObject(data) ==
    [cells |-> [i \in 1..Len(data.cells) |->
        LET c == data.cells[i]
            lines == Split(c.value)
        IN [cell_type |-> IF c.kind = "Code" THEN "code" ELSE "markdown",
            source |-> [j \in 1..Len(lines) |-> lines[j] \o <<"\n">>],
            outputs |-> [k \in 1..Len(c.outputs) |-> serializeOutput(c.outputs[k])]]]]

\* A list of strings with each string written by JSON.stringify, or read by
\* JSON.parse.
EscapeAll(strs) == [j \in 1..Len(strs) |-> JsonEscape(strs[j])]

UnescapeAll(strs) == [j \in 1..Len(strs) |-> JsonUnescape(strs[j])]

\* JSON.stringify on a stream output and on the notebook object: the
\* strings of sources and stream texts as written in the file.
StringifyOutput(o) ==
    IF o.output_type = "stream" THEN [o EXCEPT !.text = EscapeAll(@)] ELSE o

JsonStringify(nb) ==
    [cells |-> [i \in 1..Len(nb.cells) |->
        [nb.cells[i] EXCEPT !.source = EscapeAll(@),
                            !.outputs = [k \in 1..Len(@) |-> StringifyOutput(@[k])]]]]

\* JSON.parse on the file's text.
ParseOutput(o) ==
    IF o.output_type = "stream" THEN [o EXCEPT !.text = UnescapeAll(@)] ELSE o

JsonParseNotebook(file) ==
    [cells |-> [i \in 1..Len(file.cells) |->
        [file.cells[i] EXCEPT !.source = UnescapeAll(@),
                              !.outputs = [k \in 1..Len(@) |-> ParseOutput(@[k])]]]]

serializeNotebook(data) == JsonStringify(NotebookObject(data))

\* deserializeOutput: the cell output for a notebook-format output.
deserializeOutput(output) ==
    CASE output.output_type = "stream" ->
           [items |-> <<[mime |-> "text/plain", data |-> Join(output.text)]>>]
      [] output.output_type = "display_data" ->
           [items |-> output.data]
      [] output.output_type = "error" ->
           [items |-> <<[mime |-> "application/vnd.code.notebook.error",
                         data |-> [name |-> output.ename, message |-> output.evalue,
                                   stack |-> Join(output.traceback)]]>>]
      [] OTHER -> [items |-> <<>>]

deserializeNotebook(content) ==
    LET notebook == JsonParseNotebook(content)
    IN [cells |-> [i \in 1..Len(notebook.cells) |->
          LET c == notebook.cells[i]
          IN [kind |-> IF c.cell_type = "code" THEN "Code" ELSE "Markup",
              value |-> Join(c.source),
              outputs |-> [k \in 1..Len(c.outputs) |-> deserializeOutput(c.outputs[k])]]]]

\* The editor saves a document: serializeNotebook.
SerializeNotebook ==
    /\ \E data \in Documents :
         ret' = <<[method |-> "serializeNotebook", data |-> data,
                   content |-> serializeNotebook(data)]>>
    /\ UNCHANGED <<daemon, container, ctl, ens, ensHist, lastExec, sessionVars>>

\* The editor opens the saved file: deserializeNotebook.
DeserializeNotebook ==
    /\ ret # <<>>
    /\ ret[1].method = "serializeNotebook"
    /\ ret' = <<[method |-> "deserializeNotebook", data |-> ret[1].data,
                 content |-> ret[1].content,
                 value |-> deserializeNotebook(ret[1].content)]>>
    /\ UNCHANGED <<daemon, container, ctl, ens, ensHist, lastExec, sessionVars>>

SpecNotebook == InitParse /\ [][SerializeNotebook \/ DeserializeNotebook]_vars

\* ------------------------------------------------- out-of-band activity

\* Someone else stops or removes the canonical container (docker stop,
\* docker rm -f). Calls of ensureContainer in progress are marked disturbed.
Disturb ==
    /\ ens' = [t \in Tasks |->
                 IF ens[t] = <<>> THEN <<>> ELSE <<[ens[t][1] EXCEPT !.disturbed = TRUE]>>]
    /\ ensHist' = <<>>
    /\ lastExec' = <<>>
    /\ ret' = <<>>
    /\ sessionVars' = {}
    /\ ops < MaxOps
    /\ ops' = ops + 1
    /\ UNCHANGED <<image, container, pc, op, cell, log>>

OobStop ==
    /\ cState = "running"
    /\ cState' = "stopped"
    /\ UNCHANGED <<idLive, helper>>
    /\ Disturb

OobRemove ==
    /\ cState # "absent"
    /\ cState' = "absent"
    /\ idLive' = FALSE
    /\ helper' = FALSE
    /\ Disturb

\* ------------------------------------------------------------------- Spec

Step(t) ==
    \/ ensureContainer(t)
    \/ setupKernel(t)
    \/ ExecuteCode(t)
    \/ stopContainer(t)
    \/ RebuildRemoveImage(t)
    \/ executeCell(t)
    \/ AutoProbe(t)
    \/ CmdProbe(t)
    \/ ListKernels(t)

Next ==
    \/ BeginBatch
    \/ BeginAuto
    \/ BeginCmd
    \/ \E t \in Tasks : Step(t)
    \/ OobStop
    \/ OobRemove

Spec == Init /\ [][Next]_vars

\* ------------------------------------------------- overlapping callers

\* The host calls the notebook-open listener and the command handlers whenever
\* their events occur: each is an async function that is entered while another
\* one is suspended at an await. A task begins its next operation as soon as
\* its own previous one is over. The commands are the registered lifecycle
\* ones, stopContainer and rebuildContainer.
BeginAutoOverlapping ==
    /\ pc["auto"] = "idle"
    /\ ops < MaxOverlapping
    /\ ops' = ops + 1
    /\ pc' = [pc EXCEPT !["auto"] = "auto_probe"]
    /\ op' = [op EXCEPT !["auto"] = "auto"]
    /\ lastExec' = <<>>
    /\ ret' = <<>>
    /\ UNCHANGED <<daemon, container, cell, log, ens, ensHist, sessionVars>>

BeginCmdOverlapping ==
    /\ pc["cmd"] = "idle"
    /\ ops < MaxOverlapping
    /\ ops' = ops + 1
    /\ \E o \in {"stop", "rebuild"} :
         /\ pc' = [pc EXCEPT !["cmd"] = Entry(o)]
         /\ op' = [op EXCEPT !["cmd"] = o]
    /\ lastExec' = <<>>
    /\ ret' = <<>>
    /\ UNCHANGED <<daemon, container, cell, log, ens, ensHist, sessionVars>>

\* The steps of the lifecycle operations.
StepOverlapping(t) ==
    \/ ensureContainer(t)
    \/ setupKernel(t)
    \/ stopContainer(t)
    \/ RebuildRemoveImage(t)
    \/ AutoProbe(t)

NextOverlapping ==
    \/ BeginAutoOverlapping
    \/ BeginCmdOverlapping
    \/ \E t \in Tasks : StepOverlapping(t)

SpecOverlapping == Init /\ [][NextOverlapping]_vars

\* ------------------------------------------------- no out-of-band activity

\* The extension is the daemon's only client: the canonical container and the
\* image change through the manager's own calls alone.
NextNoOutOfBand ==
    \/ BeginBatch
    \/ BeginAuto
    \/ BeginCmd
    \/ \E t \in Tasks : Step(t)

SpecNoOutOfBand == Init /\ [][NextNoOutOfBand]_vars

\* ------------------------------------------------------------------ claims

Has(calls, c) == \E i \in 1..Len(calls) : calls[i] = c

\* The completed ensureContainer calls on record that no out-of-band event
\* fell into.
Completed == {i \in 1..Len(ensHist) : ~ensHist[i].disturbed}

HandleRuns(e) ==
    /\ e.afterC = "running"
    /\ e.afterHandle = "byName" \/ (e.afterHandle = "byId" /\ e.afterLive)

\* C1 (as claimed): for every daemon state ensureContainer found (its inspect
\* answered by the daemon): a running container gives a return after the
\* inspect alone; a stopped one gives exactly one start and a return, with no
\* image check, build or create; the image is ensured and a container created
\* only when no container with the canonical name exists.
C1_ResolutionOrder ==
    \A i \in Completed :
      LET e == ensHist[i]
      IN "inspect" \notin e.faults =>
           /\ e.entryC = "running" => e.out = "returned" /\ e.calls = <<"inspect">>
           /\ e.entryC = "stopped" => e.out = "returned" /\ e.calls = <<"inspect", "start">>
           /\ (Has(e.calls, "imageInspect") \/ Has(e.calls, "build") \/ Has(e.calls, "create"))
                => e.entryC = "absent"

\* C2: two ensureContainer calls in direct succession, the daemon answering
\* every call: both return with the container running, and the second issues
\* no build and no create.
C2_Idempotent ==
    (Len(ensHist) = 2 /\ \A i \in 1..2 : ~ensHist[i].disturbed /\ ensHist[i].faults = {}) =>
        /\ \A i \in 1..2 : ensHist[i].out = "returned" /\ HandleRuns(ensHist[i])
        /\ ~Has(ensHist[2].calls, "build")
        /\ ~Has(ensHist[2].calls, "create")

\* C2 witness: the second of two calls returned after the first one had to
\* create the container.
C2_Witness ==
    /\ Len(ensHist) = 2
    /\ \A i \in 1..2 : ~ensHist[i].disturbed /\ ensHist[i].faults = {}
    /\ Has(ensHist[1].calls, "create")
    /\ ensHist[2].out = "returned"

\* C3: whatever the daemon state at entry and wherever a daemon call fails,
\* an ensureContainer call that returns normally leaves the cached handle on
\* a container that is running.
C3_ReturnsRunning ==
    \A i \in Completed :
      ensHist[i].out = "returned" => HandleRuns(ensHist[i])

\* C3 witness: a call returned normally, after a create, although a daemon
\* call failed in it.
C3_Witness ==
    \E i \in Completed :
      /\ ensHist[i].out = "returned"
      /\ ensHist[i].faults # {}
      /\ Has(ensHist[i].calls, "create")

\* C5: a call entered with a cached handle whose container is gone, the
\* daemon answering every call, creates and starts a new container and
\* returns.
C5_StaleHandleRecovery ==
    \A i \in Completed :
      LET e == ensHist[i]
      IN (e.entryHandle # "none" /\ e.entryC = "absent" /\ e.faults = {}) =>
           /\ e.out = "returned"
           /\ Has(e.calls, "create")
           /\ Has(e.calls, "start")
           /\ HandleRuns(e)

\* C5 witness: the handle came from createContainer and its container was
\* removed out-of-band; the call returned.
C5_Witness ==
    \E i \in Completed :
      /\ ensHist[i].entryHandle = "byId"
      /\ ensHist[i].entryC = "absent"
      /\ ensHist[i].faults = {}
      /\ ensHist[i].out = "returned"

\* C6 (as claimed): when create succeeds and the following start fails the
\* call throws, and the next call (its inspect answered by the daemon) starts
\* the leftover container and attempts no second create.
C6_NoSecondCreate ==
    \A i \in Completed :
      LET e == ensHist[i]
      IN (Has(e.calls, "create") /\ "create" \notin e.faults /\ "start" \in e.faults) =>
           /\ e.out = "threw"
           /\ (i = 1 /\ 2 \in Completed /\ "inspect" \notin ensHist[2].faults) =>
                /\ Has(ensHist[2].calls, "start")
                /\ ~Has(ensHist[2].calls, "create")

\* C4 (as claimed): an executeCode call that runs print(x) after an earlier
\* call of the same container lifetime ran x = 5 returns status ok with
\* output "5\n".
C4_SessionPersistence ==
    \A i \in 1..Len(lastExec) :
      (lastExec[i].code = "print(x)" /\ "x" \in lastExec[i].earlier) =>
          /\ lastExec[i].result.status = "ok"
          /\ lastExec[i].result.output = "5\n"

\* C7 (as claimed): a cell whose source is empty or whitespace-only ends
\* succeeded with zero outputs and without ensureContainer, setupKernel or
\* executeCode having been entered for it, whatever outputs it held before.
C7_EmptyCell ==
    (Trim(cell.src) = "" /\ cell.state # "idle") =>
        /\ cell.state = "succeeded"
        /\ cell.invoked = {}
        /\ cell.outputs = <<>>

\* C8 (as claimed): a cell run that ended failed leaves exactly one output
\* item on the cell, an error item.
C8_FailedSingleError ==
    cell.state = "failed" =>
        /\ Len(cell.outputs) = 1
        /\ cell.outputs[1].kind = "error"

\* C9: a batch that has come to its end has started every one of its cells
\* and brought each to a terminal state, failed cells before it included.
C9_FailureIsolated ==
    (pc["batch"] = "idle" /\ log # <<>>) =>
        /\ Len(log) = NCells
        /\ \A i \in 1..Len(log) : log[i].state \in {"succeeded", "failed"}

\* C9 witness: a finished batch whose first cell failed in executeCode or on
\* its result and whose last cell succeeded.
C9_Witness ==
    /\ pc["batch"] = "idle"
    /\ Len(log) = NCells
    /\ log[1].state = "failed"
    /\ log[1].failedIn \in {"exec", "result"}
    /\ log[NCells].state = "succeeded"

\* C10 (as claimed): once ensureContainer or setupKernel has failed in a
\* batch, the batch is over: the cell it failed in is the last one started
\* and no cell of the batch enters executeCode.
C10_GuardAbortsBatch ==
    \A i \in 1..Len(log) :
      log[i].failedIn \in {"ensure", "setup"} =>
          /\ i = Len(log)
          /\ pc["batch"] = "idle"

\* C11: within a batch a cell's execution is started only when no execution
\* is running: before the first cell none exists, and before cell n+1 the
\* execution of cell n has ended succeeded or failed, as the batch's record of
\* it says; and a running execution belongs to a batch that is inside it.
C11_Sequential ==
    /\ pc["batch"] = "cell_start" =>
         IF log = <<>>
         THEN cell.state = "idle"
         ELSE /\ cell.state \in {"succeeded", "failed"}
              /\ cell.state = log[Len(log)].state
    /\ cell.state = "running" =>
         /\ pc["batch"] \notin {"idle", "cell_start"}
         /\ Len(log) < NCells

\* C11 witness: the second cell's execution is running, the first one having
\* ended.
C11_Witness ==
    /\ cell.state = "running"
    /\ Len(log) = 1
    /\ log[1].state \in {"succeeded", "failed"}

\* C12 (as claimed): once a cell of the batch has come through
\* ensureContainer and setupKernel and left the container running, no later
\* cell of the same batch enters ensureContainer while the container is
\* still running.
C12_GuardOncePerBatch ==
    (pc["batch"] = "ens_inspect" /\ cState = "running") =>
        \A i \in 1..Len(log) :
          ~(log[i].guarded /\ log[i].up /\ log[i].failedIn \notin {"ensure", "setup"})

\* The sequence sub occurs in the sequence big.
Contains(big, sub) ==
    \E k \in 0..(Len(big) - Len(sub)) : SubSeq(big, k + 1, k + Len(sub)) = sub

\* The text is valid JSON for an object with the properties of a result.
ResultJson(text) ==
    /\ ~JsonParse(text).threw
    /\ DOMAIN JsonParse(text).value = {"status", "output", "error"}

\* C13 (as claimed): whenever the response with its first HeaderLen
\* characters stripped is not valid JSON of the result shape, executeCode
\* returns a result with status error whose error holds the raw response.
C13_ParseFailurePolicy ==
    \A i \in 1..Len(lastExec) :
      LET e == lastExec[i]
      IN ~ResultJson(Slice8(e.raw)) =>
           /\ "status" \in DOMAIN e.result
           /\ e.result.status = "error"
           /\ "error" \in DOMAIN e.result
           /\ Contains(e.result.error, e.raw)

\* C14 (as claimed): whenever stopContainer returns (to its caller, or into
\* rebuildContainer's image removal), the cached handle is cleared.
C14_StopClearsHandle ==
    [][\A t \in Tasks :
         (pc[t] \in {"st_stop", "st_remove"} /\ pc'[t] \notin {"st_stop", "st_remove"})
            => container' = "none"]_vars

\* C15 (as claimed): rebuildContainer attempts the image removal only when no
\* container with the canonical name exists any more.
C15_RebuildSequential ==
    \A t \in Tasks : pc[t] = "rb_rmimage" => cState = "absent"

\* C16: an isContainerRunning call returns true exactly when its query was
\* answered and the canonical container is running, false when the query
\* failed, and leaves the daemon state and the cached handle as it met them.
C16_ProbeNonMutating ==
    \A i \in 1..Len(ret) :
      ret[i].method = "isContainerRunning" =>
        /\ ret[i].value = (~ret[i].failed /\ ret[i].met[1] = "running")
        /\ <<cState, idLive, image, helper, container>> = ret[i].met

\* C16 witness: the query failed while the container was running with a
\* handle cached, and the call returned false.
C16_Witness ==
    \E i \in 1..Len(ret) :
      /\ ret[i].method = "isContainerRunning"
      /\ ret[i].failed
      /\ ret[i].met[1] = "running"
      /\ ret[i].met[5] # "none"
      /\ ~ret[i].value

\* C17: a setupKernel call that finds no cached handle, or a handle whose
\* container is stopped or gone, ends at its first step: it goes on neither
\* to the kernel installation nor to the helper upload (nor, in a cell, to
\* executeCode), the cell it runs for fails in setupKernel, and the container
\* filesystem is left without a new helper.
C17_SetupFailsFast ==
    [][\A t \in Tasks :
         (/\ pc[t] = "sk_pip"
          /\ pc'[t] # "sk_pip"
          /\ container = "none" \/ ~Resolves \/ cState # "running") =>
            /\ pc'[t] \notin {"sk_install", "sk_copy", "xc_exec"}
            /\ helper' = helper
            /\ op[t] = "batch" => (cell'.state = "failed" /\ cell'.failedIn = "setup")]_vars

\* C17 witness: a cell failed in setupKernel, the container being stopped
\* under the cached handle and no helper uploaded.
C17_Witness ==
    /\ cell.state = "failed"
    /\ cell.failedIn = "setup"
    /\ container # "none"
    /\ cState = "stopped"
    /\ ~helper
    /\ cell.outputs[Len(cell.outputs)] = ErrorItem(<<"Error: exec failed">>)

\* C18 (as claimed): a listAvailableKernels call that meets a failure (no
\* container handle, a failing command, output that does not parse) returns
\* the one-element list naming the default kernel.
C18_KernelFallback ==
    \A i \in 1..Len(ret) :
      (ret[i].method = "listAvailableKernels" /\ ret[i].failure # "none") =>
          ret[i].value = <<"docker-python">>

\* The number of frames a raw response holds.
Frames(raw) == Cardinality({i \in 1..Len(raw) : raw[i] = "h"}) \div HeaderLen

\* C19: the result of executeCode is the parse of everything after the first
\* HeaderLen characters of the response, however many frames it holds; a
\* response of two or more frames therefore keeps the later headers in the
\* parsed text and comes back as a parse failure holding the raw response.
C19_HeaderStrippedOnce ==
    \A i \in 1..Len(lastExec) :
      LET e == lastExec[i]
          rest == SubSeq(e.raw, HeaderLen + 1, Len(e.raw))
          failure == [status |-> "error", output |-> "",
                      error |-> <<"Failed to parse execution result: ">> \o e.raw]
      IN /\ SubSeq(e.raw, 1, HeaderLen) = Header
         /\ e.result = IF JsonParse(rest).threw THEN failure ELSE JsonParse(rest).value
         /\ Frames(e.raw) >= 2 => e.result = failure

\* C19 witness: the helper's well-formed line for print(1) arrived in two
\* frames and came back as a parse failure.
C19_Witness ==
    \E i \in 1..Len(lastExec) :
      /\ lastExec[i].code = "print(1)"
      /\ Frames(lastExec[i].raw) = 2
      /\ Contains(lastExec[i].raw, <<"{", "ok">>)
      /\ lastExec[i].result.status = "error"

\* The text of the stream output of a document's cell i.
StreamText(doc, i) == doc.cells[i].outputs[1].items[1].data

\* C20 (as claimed): a document saved and opened again has the cells it had,
\* of the same kinds in the same order, and its code cell's stream output
\* text is the same text, line ends included.
C20_RoundTrip ==
    \A i \in 1..Len(ret) :
      ret[i].method = "deserializeNotebook" =>
        /\ Len(ret[i].value.cells) = Len(ret[i].data.cells)
        /\ \A c \in 1..Len(ret[i].data.cells) :
             ret[i].value.cells[c].kind = ret[i].data.cells[c].kind
        /\ Len(ret[i].value.cells[1].outputs) = 1
        /\ StreamText(ret[i].value, 1) = StreamText(ret[i].data, 1)

\* C21: an execution record is started once when it enters running and ended
\* once when it reaches succeeded or failed, on every path through
\* executeCell; once it has ended nothing is done to it any more: the cell's
\* outputs and record change again only when a new record is made for a cell.
C21_ClosedOnce ==
    /\ [](/\ cell.state = "idle" => (cell.starts = 0 /\ cell.ends = 0)
          /\ cell.state = "running" => (cell.starts = 1 /\ cell.ends = 0)
          /\ cell.state \in {"succeeded", "failed"} => (cell.starts = 1 /\ cell.ends = 1))
    /\ [][(cell.state \in {"succeeded", "failed"} /\ cell' # cell) =>
             \/ (cell'.ends = 0 /\ cell'.state \in {"idle", "running"})
             \/ (pc["batch"] = "cell_start" /\ cell'.starts = 1 /\ cell'.ends = 1)]_vars

\* C21 witness: a record closed by the catch after an exception in
\* executeCode, and the batch's earlier record closed on the empty-source
\* path.
C21_Witness ==
    /\ cell.state = "failed"
    /\ cell.failedIn = "exec"
    /\ cell.ends = 1
    /\ Len(log) = 2
    /\ log[1].state = "succeeded"

\* C22 (as claimed): a cell that executeCell sends to executeCode without
\* the guard having run ensureContainer (isContainerRunning returned true)
\* does not fail with 'Container not initialized'.
C22_HandleWhenRunning ==
    (cell.state = "failed" /\ cell.failedIn = "exec" /\ "ensure" \notin cell.invoked) =>
        cell.outputs[Len(cell.outputs)] # ErrorItem(<<"Error: Container not initialized">>)

\* The task is inside ensureContainer.
InEnsure(t) == pc[t] \in {"ens_inspect", "ens_start", "img_inspect", "build", "create", "cr_start"}

\* C23 (as claimed): two ensureContainer calls are never in progress
\* together such that both found the container absent, one has issued its
\* create for the canonical name and the other is at its own create call.
C23_NoDoubleCreate ==
    \A t1, t2 \in Tasks :
      ~(/\ t1 # t2
        /\ InEnsure(t1) /\ InEnsure(t2)
        /\ ens[t1] # <<>> /\ ens[t2] # <<>>
        /\ ens[t1][1].entryC = "absent" /\ ens[t2][1].entryC = "absent"
        /\ Has(ens[t1][1].calls, "create")
        /\ pc[t2] = "create")

\* C24 (as claimed): with no out-of-band activity, between manager operations
\* (also after one that ended in an error) a cached handle implies that a
\* container with the canonical name exists.
C24_HandleImpliesContainer ==
    (Quiescent /\ container # "none") => cState # "absent"

\* C25 (as claimed): whenever an executeCode call made by executeCell runs
\* its command in the container, the helper script has been uploaded to that
\* container by a completed setupKernel; stated for the cell that follows
\* one whose guard ended in a failed setupKernel.
C25_HelperBeforeCode ==
    [][(/\ pc["batch"] = "xc_exec"
        /\ log # <<>>
        /\ log[Len(log)].failedIn = "setup"
        /\ lastExec' # <<>>) => helper]_vars

====
